---- MODULE Spec2Model ----
(***************************************************************************)
(* Playoff simulation and odds aggregation of the ml-service:              *)
(*   services/championship_calculator.py  (ChampionshipCalculator)         *)
(*   services/playoff_predictor.py        (PlayoffPredictor)               *)
(*                                                                         *)
(* Randomness.  The code draws from the ambient generators (random,        *)
(* np.random).  Every draw is used in a comparison `random() < p` with     *)
(* 0 < p < 1, or in random.choice over two elements, so each draw has two  *)
(* outcomes.  The generator is modelled as a stream of such outcomes: a    *)
(* periodic bit stream `tape` of period TapeLen, chosen freely in Init,    *)
(* and the read position `pos`.  TRUE means "the draw fell below p" (the   *)
(* first-listed team wins / the first element is chosen).                  *)
(***************************************************************************)
EXTENDS Integers, Sequences, FiniteSets, TLC

\* ---------------------------------------------------------------- bounds
TapeLen == 5            \* period of the pseudo-random stream
MaxSims == 3            \* largest `simulations` argument explored
MaxTeams == 11          \* largest conference standings explored
SeriesSimulations == 4  \* samples per _predict_series call (1000 in the code)
DefaultSeasonSimulations == 1  \* default of simulate_season_standings (1000 in the code)
DefaultOddsSimulations == 2    \* default of calculate_comprehensive_odds (5000 in the code)
MaxCalls == 2           \* calls of cached operations per behaviour
MaxTicks == 3           \* hours the clock advances per behaviour
MaxCallers == 2         \* threads calling start/stop of the background processor
MaxThreads == 2         \* scheduler threads created per behaviour

\* ------------------------------------------------------------- constants
DefaultSeriesLength == 7
ConferenceSize == 15    \* teams per conference in conference_teams
GamesPerTeam == 3       \* games_per_team: games against each conference opponent
TotalGames == 82        \* total_games
HoursPerDay == 24       \* the date of a key changes every 24 hours

\* ----------------------------------------------------------------- teams
ConferenceBase(conference) == IF conference = "Eastern" THEN 100 ELSE 200

\* One standings entry (the dict built at playoff_predictor.py:92-102).
SeedEntry(conference, r) ==
    [team_id |-> ConferenceBase(conference) + r, rank |-> r,
     team_name |-> ConferenceBase(conference) + r]

\* Standings of one conference with n entries, ranks 1..n in list order.
ConferenceStandings(conference, n) == [r \in 1..n |-> SeedEntry(conference, r)]

\* Python's None where the code keeps a team dict or None.
None == [team_id |-> 0, rank |-> 0]

StandingsSizes == {0, 1, 7, 8, 10, MaxTeams}

ConferenceSet == {"Eastern", "Western"}

TeamIds(st) == UNION {{st[c][i].team_id : i \in 1..Len(st[c])} : c \in ConferenceSet}

\* ------------------------------------------------------ sequence helpers
\* Python slice teams[a:b] with 0 <= a <= b (0-based, end exclusive).
Slice(s, a, b) ==
    LET hi == IF b < Len(s) THEN b ELSE Len(s)
    IN  IF a >= hi THEN <<>> ELSE SubSeq(s, a + 1, hi)

Range(s) == {s[i] : i \in 1..Len(s)}

Count(s, x) == Cardinality({i \in 1..Len(s) : s[i] = x})

Advance(p, n) == (p + n) % TapeLen

\* ------------------------------------------- ChampionshipCalculator (pure)
\* championship_calculator.py:209-220.  team1_series_prob = min(0.95, p*1.1)
\* lies strictly between 0 and 1, so the draw decides either way.
simulate_head_to_head(team1, team2, t, p) == IF t[p] THEN team1 ELSE team2

\* The last play-in game played by the winner of game 1 instead of its loser.
simulate_play_in_winner_replays(teams, t, p) ==
    IF Len(teams) < 4
    THEN [winners |-> Slice(teams, 0, 2), pos |-> p]
    ELSE LET game1_winner == simulate_head_to_head(teams[1], teams[2], t, p)
             game2_winner == simulate_head_to_head(teams[3], teams[4], t, Advance(p, 1))
             eighth_seed  == simulate_head_to_head(game1_winner, game2_winner, t, Advance(p, 2))
         IN  [winners |-> <<game1_winner, eighth_seed>>, pos |-> Advance(p, 3)]

\* championship_calculator.py:170-185
simulate_play_in(teams, t, p) ==
    IF Len(teams) < 4
    THEN [winners |-> Slice(teams, 0, 2), pos |-> p]
    ELSE LET game1_winner == simulate_head_to_head(teams[1], teams[2], t, p)
             game1_loser  == IF game1_winner = teams[1] THEN teams[2] ELSE teams[1]
             game2_winner == simulate_head_to_head(teams[3], teams[4], t, Advance(p, 1))
             eighth_seed  == simulate_head_to_head(game1_loser, game2_winner, t, Advance(p, 2))
         IN  [winners |-> <<game1_winner, eighth_seed>>, pos |-> Advance(p, 3)]

\* First-round pairs taken in list order.
first_round_pairs_in_order(teams) ==
    << <<teams[1], teams[2]>>, <<teams[3], teams[4]>>,
       <<teams[5], teams[6]>>, <<teams[7], teams[8]>> >>

\* championship_calculator.py:196-198
first_round_pairs(teams) ==
    << <<teams[1], teams[8]>>, <<teams[2], teams[7]>>,
       <<teams[3], teams[6]>>, <<teams[4], teams[5]>> >>

\* Pairing that stops one step early: range(0, len(teams)-2, 2).
sequential_pairs_short(teams) ==
    [k \in 1..((Len(teams) - 1) \div 2) |-> <<teams[2 * k - 1], teams[2 * k]>>]

\* championship_calculator.py:200-201: range(0, len(teams)-1, 2)
sequential_pairs(teams) ==
    [k \in 1..(Len(teams) \div 2) |-> <<teams[2 * k - 1], teams[2 * k]>>]

\* championship_calculator.py:203-207: one head-to-head per matchup.
play_matchups(matchups, t, p) ==
    [raised   |-> FALSE,
     matchups |-> matchups,
     winners  |-> [k \in 1..Len(matchups) |->
                      simulate_head_to_head(matchups[k][1], matchups[k][2],
                                            t, Advance(p, k - 1))],
     pos      |-> Advance(p, Len(matchups))]

\* championship_calculator.py:187-207.  teams[7] on a field shorter than 8
\* raises IndexError, reported as raised = TRUE.
simulate_playoff_round(teams, round_name, t, p) ==
    IF Len(teams) <= 1
    THEN [raised |-> FALSE, matchups |-> <<>>, winners |-> teams, pos |-> p]
    ELSE IF round_name = "first_round"
    THEN IF Len(teams) < 8
         THEN [raised |-> TRUE, matchups |-> <<>>, winners |-> <<>>, pos |-> p]
         ELSE play_matchups(first_round_pairs(teams), t, p)
    ELSE play_matchups(sequential_pairs(teams), t, p)

\* championship_calculator.py:148-150
RECURSIVE fill_playoff_teams(_, _)
fill_playoff_teams(playoff_teams, teams) ==
    IF Len(playoff_teams) < 8 /\ Len(teams) > Len(playoff_teams)
    THEN fill_playoff_teams(Append(playoff_teams, teams[Len(playoff_teams) + 1]), teams)
    ELSE playoff_teams

Ids(teams) == [i \in 1..Len(teams) |-> teams[i].team_id]

\* A slice that starts one entry too late.
play_in_teams_of_late(teams) ==
    IF Len(teams) >= 10 THEN Slice(teams, 7, 11) ELSE <<>>

\* championship_calculator.py:137
play_in_teams_of(teams) ==
    IF Len(teams) >= 10 THEN Slice(teams, 6, 10) ELSE <<>>

\* championship_calculator.py:162-168, after the semifinals: cp is the
\* conference record so far, r3 the conference finals (used when they are played).
conference_champion(cp, semifinals_winners, r3) ==
    IF Len(semifinals_winners) >= 2
    THEN [cp EXCEPT !.final_matchups = r3.matchups,
                    !.conference_finals = <<r3.winners[1].team_id>>,
                    !.champion = r3.winners[1],
                    !.pos = r3.pos]
    ELSE IF Len(semifinals_winners) > 0
    THEN [cp EXCEPT !.champion = semifinals_winners[1]]
    ELSE IF Len(cp.playoff_teams) > 0
    THEN [cp EXCEPT !.champion = cp.playoff_teams[1]]
    ELSE [cp EXCEPT !.raised = TRUE]

\* championship_calculator.py:157-168, after the first round.
conference_semifinals(cp, r2, t) ==
    conference_champion([cp EXCEPT !.semifinal_matchups = r2.matchups,
                                   !.conference_semifinals = Ids(r2.winners),
                                   !.pos = r2.pos],
                        r2.winners,
                        simulate_playoff_round(r2.winners, "finals", t, r2.pos))

\* championship_calculator.py:152-160, once the field is set.
conference_first_round(cp, r1, t) ==
    IF r1.raised
    THEN [cp EXCEPT !.raised = TRUE]
    ELSE conference_semifinals([cp EXCEPT !.first_round_matchups = r1.matchups,
                                          !.first_round = Ids(r1.winners)],
                               simulate_playoff_round(r1.winners, "semifinals", t, r1.pos),
                               t)

\* The record of one conference's playoffs: what the method appends to
\* playoff_result['round_results'][...][conference], the returned champion,
\* and the locals playoff_teams / matchups of each round.
ConferenceRecord(play_in_ids, play_in_winners, playoff_teams, p) ==
    [raised |-> FALSE, champion |-> None,
     play_in |-> play_in_ids,
     play_in_winners |-> play_in_winners,
     playoff_teams |-> playoff_teams,
     first_round_matchups |-> <<>>, first_round |-> <<>>,
     semifinal_matchups |-> <<>>, conference_semifinals |-> <<>>,
     final_matchups |-> <<>>, conference_finals |-> <<>>,
     pos |-> p]

\* championship_calculator.py:138-153: the field, then the first round.
conference_field(teams, play_in_ids, play_in, t) ==
    conference_first_round(
        ConferenceRecord(play_in_ids, play_in.winners,
                         fill_playoff_teams(Slice(teams, 0, 6) \o play_in.winners, teams),
                         play_in.pos),
        simulate_playoff_round(
            fill_playoff_teams(Slice(teams, 0, 6) \o play_in.winners, teams),
            "first_round", t, play_in.pos),
        t)

\* championship_calculator.py:140-146
conference_play_in(teams, play_in_teams, t, p) ==
    IF Len(play_in_teams) >= 4
    THEN conference_field(teams, Ids(play_in_teams), simulate_play_in(play_in_teams, t, p), t)
    ELSE conference_field(teams, <<>>, [winners |-> <<>>, pos |-> p], t)

\* championship_calculator.py:134-168
simulate_conference_playoffs(teams, t, p) ==
    conference_play_in(teams, play_in_teams_of(teams), t, p)

\* Finals that the Western champion never wins: they end without a champion.
simulate_finals_east_or_nobody(east_champ, west_champ, t, p) ==
    IF t[p] THEN east_champ ELSE None

\* championship_calculator.py:227-229
simulate_finals(east_champ, west_champ, t, p) ==
    simulate_head_to_head(east_champ, west_champ, t, p)

\* championship_calculator.py:124-132 with both conferences simulated.
\* `conf` keeps, per conference, the record of its playoffs.
playoff_finals(east, west, t) ==
    IF east.raised
    THEN [raised |-> TRUE, pos |-> east.pos]
    ELSE IF west.raised
    THEN [raised |-> TRUE, pos |-> west.pos]
    ELSE [raised |-> FALSE,
          champion |-> simulate_finals(east.champion, west.champion, t, west.pos),
          finals_teams |-> <<east.champion, west.champion>>,
          conference_champions |-> [c \in ConferenceSet |->
              IF c = "Eastern" THEN east.champion ELSE west.champion],
          round_results |-> [name \in {"play_in", "first_round",
                                       "conference_semifinals", "conference_finals"}
                             |-> [c \in ConferenceSet |->
                                     IF c = "Eastern" THEN east[name] ELSE west[name]]],
          conf |-> [c \in ConferenceSet |-> IF c = "Eastern" THEN east ELSE west],
          pos |-> Advance(west.pos, 1)]

\* championship_calculator.py:119-122, Western after Eastern.  An exception
\* in the Eastern playoffs ends the simulation before Western runs.
playoff_western(east, st, t) ==
    IF east.raised
    THEN [raised |-> TRUE, pos |-> east.pos]
    ELSE playoff_finals(east, simulate_conference_playoffs(st["Western"], t, east.pos), t)

\* championship_calculator.py:104-132.  standings.items() yields Eastern, then
\* Western.
simulate_single_playoff(st, t, p) ==
    playoff_western(simulate_conference_playoffs(st["Eastern"], t, p), st, t)

\* championship_calculator.py:76-86
NewTeamResult(conference) ==
    [conference |-> conference, championships |-> 0, conference_finals |-> 0,
     conference_semifinals |-> 0, first_round |-> 0, play_in |-> 0,
     missed_playoffs |-> 0, finals_appearances |-> 0]

ConferenceOfId(st, id) ==
    IF \E i \in 1..Len(st["Eastern"]) : st["Eastern"][i].team_id = id
    THEN "Eastern" ELSE "Western"

\* championship_calculator.py:70-86
init_team_results(st) == [id \in TeamIds(st) |-> NewTeamResult(ConferenceOfId(st, id))]

\* Number of appends of team_id to round_results[round_name] over both conferences.
RoundCount(pr, round_name, id) ==
    Count(pr.round_results[round_name]["Eastern"], id)
        + Count(pr.round_results[round_name]["Western"], id)

\* A merge whose championship count also grows with the number of other
\* teams that already hold a title.
update_team_results_by_title_holders(tr, pr) ==
    [id \in DOMAIN tr |->
        [tr[id] EXCEPT
            !.championships =
                @ + (IF pr.champion # None /\ pr.champion.team_id = id
                     THEN 1 + Cardinality({j \in DOMAIN tr \ {id} :
                                              tr[j].championships > 0})
                     ELSE 0),
            !.finals_appearances =
                @ + Cardinality({i \in 1..Len(pr.finals_teams) :
                        pr.finals_teams[i] # None /\ pr.finals_teams[i].team_id = id}),
            !.conference_finals =
                @ + Cardinality({c \in ConferenceSet :
                        pr.conference_champions[c] # None
                        /\ pr.conference_champions[c].team_id = id})
                  + RoundCount(pr, "conference_finals", id),
            !.conference_semifinals = @ + RoundCount(pr, "conference_semifinals", id),
            !.first_round = @ + RoundCount(pr, "first_round", id),
            !.play_in = @ + RoundCount(pr, "play_in", id)]]

\* championship_calculator.py:231-252
update_team_results(tr, pr) ==
    [id \in DOMAIN tr |->
        [tr[id] EXCEPT
            !.championships =
                @ + (IF pr.champion # None /\ pr.champion.team_id = id THEN 1 ELSE 0),
            !.finals_appearances =
                @ + Cardinality({i \in 1..Len(pr.finals_teams) :
                        pr.finals_teams[i] # None /\ pr.finals_teams[i].team_id = id}),
            !.conference_finals =
                @ + Cardinality({c \in ConferenceSet :
                        pr.conference_champions[c] # None
                        /\ pr.conference_champions[c].team_id = id})
                  + RoundCount(pr, "conference_finals", id),
            !.conference_semifinals = @ + RoundCount(pr, "conference_semifinals", id),
            !.first_round = @ + RoundCount(pr, "first_round", id),
            !.play_in = @ + RoundCount(pr, "play_in", id)]]

\* ------------------------------------------------------------ arithmetic
\* The quotient count / simulations (championship_calculator.py:100), kept exact.
Probability(count, n) == [num |-> count, den |-> n]

OneMinus(q) == [num |-> q.den - q.num, den |-> q.den]

\* Python round(x, digits) of a non-negative quotient, in units of 1/scale
\* (round-half-even).
RoundScaled(q, scale) ==
    LET num == IF q.den < 0 THEN 0 - q.num ELSE q.num
        den == IF q.den < 0 THEN 0 - q.den ELSE q.den
        x   == num * scale
        d   == x \div den
        r   == x % den
    IN  IF 2 * r > den THEN d + 1
        ELSE IF 2 * r < den THEN d
        ELSE IF d % 2 = 0 THEN d ELSE d + 1

Round4(q) == RoundScaled(q, 10000)

Round3(q) == RoundScaled(q, 1000)

CounterKeys == {"championships", "conference_finals", "conference_semifinals",
                "first_round", "play_in", "missed_playoffs", "finals_appearances"}

\* championship_calculator.py:96-100: results[key + '_probability']
to_probabilities(tr, n) ==
    [id \in DOMAIN tr |-> [key \in CounterKeys |-> Probability(tr[id][key], n)]]

RECURSIVE InsertDesc(_, _, _)
\* An insertion that puts a later entry before earlier entries of equal key.
InsertDesc_before_equal(sorted, x, key) ==
    IF sorted = <<>> THEN <<x>>
    ELSE IF sorted[1][key] > x[key]
    THEN <<sorted[1]>> \o InsertDesc(Tail(sorted), x, key)
    ELSE <<x>> \o sorted

\* list.sort(key=..., reverse=True) and sorted(..., reverse=True): stable,
\* descending.
InsertDesc(sorted, x, key) ==
    IF sorted = <<>> THEN <<x>>
    ELSE IF sorted[1][key] >= x[key]
    THEN <<sorted[1]>> \o InsertDesc(Tail(sorted), x, key)
    ELSE <<x>> \o sorted

RECURSIVE SortDesc(_, _)
SortDesc(s, key) ==
    IF s = <<>> THEN <<>>
    ELSE InsertDesc(SortDesc(SubSeq(s, 1, Len(s) - 1), key), s[Len(s)], key)

\* Iteration order of team_results.items(): insertion order of lines 73-76.
TeamOrder(st) == Ids(st["Eastern"]) \o Ids(st["Western"])

\* championship_calculator.py:254-274
format_championship_odds(st, probs) ==
    LET order == TeamOrder(st)
        entry(id) ==
            [team_id |-> id,
             conference |-> ConferenceOfId(st, id),
             championship_probability |-> Round4(probs[id]["championships"]),
             finals_probability |-> Round4(probs[id]["finals_appearances"]),
             conference_finals_probability |-> Round4(probs[id]["conference_finals"]),
             playoff_probability |-> Round4(OneMinus(probs[id]["missed_playoffs"]))]
    IN  SortDesc([i \in 1..Len(order) |-> entry(order[i])], "championship_probability")

\* championship_calculator.py:276-302
format_conference_odds(st, probs) ==
    [c \in ConferenceSet |->
        SortDesc([i \in 1..Len(st[c]) |->
                     [team_id |-> st[c][i].team_id,
                      rank |-> st[c][i].rank,
                      conference_championship_probability |->
                          Round4(probs[st[c][i].team_id]["conference_finals"]),
                      playoff_probability |->
                          Round4(OneMinus(probs[st[c][i].team_id]["missed_playoffs"]))]],
                 "conference_championship_probability")]

\* championship_calculator.py:304-319
calculate_round_probabilities(probs) ==
    [id \in DOMAIN probs |->
        [make_playoffs |-> Round4(OneMinus(probs[id]["missed_playoffs"])),
         first_round |-> Round4(probs[id]["first_round"]),
         conference_semifinals |-> Round4(probs[id]["conference_semifinals"]),
         conference_finals |-> Round4(probs[id]["conference_finals"]),
         nba_finals |-> Round4(probs[id]["finals_appearances"]),
         championship |-> Round4(probs[id]["championships"])]]

\* A default that reports one simulation as run.
get_default_odds_counted ==
    [simulations_run |-> 1, championship_odds |-> <<>>,
     conference_odds |-> [c \in ConferenceSet |-> <<>>],
     round_probabilities |-> <<>>]

\* championship_calculator.py:348-357
get_default_odds ==
    [simulations_run |-> 0, championship_odds |-> <<>>,
     conference_odds |-> [c \in ConferenceSet |-> <<>>],
     round_probabilities |-> <<>>]

\* team['team_name'] raises KeyError (championship_calculator.py:261,
\* playoff_predictor.py:365): some entry of the standings has no team_name.
NamesMissing(st) ==
    \E c \in ConferenceSet : \E i \in 1..Len(st[c]) : "team_name" \notin DOMAIN st[c][i]

\* championship_calculator.py:43-59: the results dict
results_of(st, n, probs) ==
    [simulations_run |-> n,
     championship_odds |-> format_championship_odds(st, probs),
     conference_odds |-> format_conference_odds(st, probs),
     round_probabilities |-> calculate_round_probabilities(probs)]

\* championship_calculator.py:88-94: the simulation loop, `remaining`
\* iterations to go; an exception in a simulation ends it.
RECURSIVE run_championship_simulations(_, _, _, _, _)
tally_simulation(st, remaining, tr, pr, t) ==
    IF pr.raised
    THEN [raised |-> TRUE, team_results |-> tr, pos |-> pr.pos]
    ELSE run_championship_simulations(st, remaining - 1, update_team_results(tr, pr),
                                      t, pr.pos)

run_championship_simulations(st, remaining, tr, t, p) ==
    IF remaining <= 0
    THEN [raised |-> FALSE, team_results |-> tr, pos |-> p]
    ELSE tally_simulation(st, remaining, tr, simulate_single_playoff(st, t, p), t)

\* championship_calculator.py:39-66 once the simulations have run: the
\* results, or the default after an exception (a raising simulation, the
\* division by simulations = 0 at line 100, or the KeyError of line 261).
odds_of(st, n, sims) ==
    IF sims.raised \/ (n = 0 /\ DOMAIN sims.team_results # {}) \/ NamesMissing(st)
    THEN [raised |-> TRUE, odds |-> get_default_odds, pos |-> sims.pos]
    ELSE [raised |-> FALSE,
          odds |-> results_of(st, n, to_probabilities(sims.team_results, n)),
          pos |-> sims.pos]

\* championship_calculator.py:27-66 with standings given
comprehensive_odds(st, n, t, p) ==
    odds_of(st, n, run_championship_simulations(st, n, init_team_results(st), t, p))

\* ------------------------------------------------- season standings (pure)
\* playoff_predictor.py:29-66: conference_teams, the team ids in list order.
ConferenceTeams(conference) ==
    [i \in 1..ConferenceSize |-> ConferenceBase(conference) + i]

\* Number of the k draws read from position p that fell below the win
\* probability (0 < win_prob < 1, so every draw can go either way).
Wins(t, p, k) == Cardinality({j \in 0..(k - 1) : t[(p + j) % TapeLen]})

\* playoff_predictor.py:146-165: draws of one simulated season of one team.
SeasonDraws(teams) == GamesPerTeam * (Len(teams) - 1)

\* playoff_predictor.py:123-125: total_wins of the team at index i of `teams`;
\* its seasons follow those of the teams before it in the stream.
total_wins(teams, i, simulations, t, p) ==
    Wins(t, Advance(p, (i - 1) * simulations * SeasonDraws(teams)),
         simulations * SeasonDraws(teams))

\* playoff_predictor.py:167-183, in thousandths; the win percentage is
\* wins / (total_games * simulations).
calculate_playoff_probability(wins, games) ==
    IF 1000 * wins >= 600 * games THEN 950
    ELSE IF 1000 * wins >= 550 * games THEN 800
    ELSE IF 1000 * wins >= 500 * games THEN 600
    ELSE IF 1000 * wins >= 450 * games THEN 300
    ELSE IF 1000 * wins >= 400 * games THEN 100
    ELSE 50

\* playoff_predictor.py:127-142: wins and losses in tenths, the percentage and
\* the playoff probability in thousandths.
team_stats(team_id, wins, simulations) ==
    [team_id |-> team_id,
     projected_wins |-> RoundScaled(Probability(wins, simulations), 10),
     projected_losses |->
         RoundScaled(Probability(TotalGames * simulations - wins, simulations), 10),
     win_percentage |-> RoundScaled(Probability(wins, TotalGames * simulations), 1000),
     playoff_probability |-> calculate_playoff_probability(wins, TotalGames * simulations)]

\* playoff_predictor.py:111-144.  avg_wins = total_wins / simulations raises
\* ZeroDivisionError for the first team when simulations = 0.
simulate_conference_season(teams, simulations, t, p) ==
    IF simulations = 0 /\ Len(teams) > 0
    THEN [raised |-> TRUE, stats |-> <<>>, pos |-> p]
    ELSE [raised |-> FALSE,
          stats |-> [i \in 1..Len(teams) |->
                        team_stats(teams[i], total_wins(teams, i, simulations, t, p),
                                   simulations)],
          pos |-> Advance(p, Len(teams) * simulations * SeasonDraws(teams))]

\* playoff_predictor.py:88-102: rank 1..N in sorted order.
ranked(sorted_teams) ==
    [r \in 1..Len(sorted_teams) |->
        [rank |-> r,
         team_id |-> sorted_teams[r].team_id,
         team_name |-> sorted_teams[r].team_id,
         projected_wins |-> sorted_teams[r].projected_wins,
         projected_losses |-> sorted_teams[r].projected_losses,
         win_percentage |-> sorted_teams[r].win_percentage,
         playoff_probability |-> sorted_teams[r].playoff_probability]]

\* playoff_predictor.py:83-102, one conference
conference_standings(season) ==
    [raised |-> season.raised,
     standings |-> ranked(SortDesc(season.stats, "projected_wins")),
     pos |-> season.pos]

\* playoff_predictor.py:447-460: entries without team_name
get_default_standings ==
    [c \in ConferenceSet |->
        [i \in 1..ConferenceSize |->
            [rank |-> i, team_id |-> ConferenceTeams(c)[i],
             projected_wins |-> 450, projected_losses |-> 370,
             win_percentage |-> 549, playoff_probability |-> 600]]]

\* playoff_predictor.py:79-109 with both conferences simulated
season_standings(east, west) ==
    IF east.raised \/ west.raised
    THEN [raised |-> TRUE, standings |-> get_default_standings,
          pos |-> IF east.raised THEN east.pos ELSE west.pos]
    ELSE [raised |-> FALSE,
          standings |-> [c \in ConferenceSet |->
                            IF c = "Eastern" THEN east.standings ELSE west.standings],
          pos |-> west.pos]

\* Western after Eastern; an exception in the Eastern season skips Western.
season_western(east, simulations, t) ==
    season_standings(east,
        IF east.raised THEN east
        ELSE conference_standings(
                 simulate_conference_season(ConferenceTeams("Western"), simulations,
                                            t, east.pos)))

\* playoff_predictor.py:79-109
standings_results(simulations, t, p) ==
    season_western(
        conference_standings(
            simulate_conference_season(ConferenceTeams("Eastern"), simulations, t, p)),
        simulations, t)

\* ------------------------------------------------- PlayoffPredictor (pure)
\* team_ratings.get(team_id, 1500)
Rating(ratings, id) == IF id \in DOMAIN ratings THEN ratings[id] ELSE 1500

\* 1 / (1 + 10**((rating2 - rating1) / 400)) in thousandths, tabulated for
\* rating differences that are multiples of 25 up to 400.
EloTable ==
    <<500, 536, 571, 606, 640, 673, 703, 733, 760, 785, 808, 830, 849, 867, 882, 896, 909>>

game_win_prob(rating1, rating2) ==
    LET d == rating1 - rating2
    IN  IF d >= 0 THEN EloTable[(d \div 25) + 1]
        ELSE 1000 - EloTable[((0 - d) \div 25) + 1]

\* championship_calculator.py:213-218: team1_series_prob = min(0.95,
\* team1_win_prob * 1.1), in ten-thousandths.
team1_series_prob(team1, team2, ratings) ==
    IF 11 * game_win_prob(Rating(ratings, team1.team_id), Rating(ratings, team2.team_id))
           < 9500
    THEN 11 * game_win_prob(Rating(ratings, team1.team_id), Rating(ratings, team2.team_id))
    ELSE 9500

\* playoff_predictor.py:334-346.  One loop iteration per draw.
RECURSIVE play_series(_, _, _, _, _)
play_series(team1_wins, team2_wins, games_needed, t, p) ==
    IF team1_wins < games_needed /\ team2_wins < games_needed
    THEN IF t[p]
         THEN play_series(team1_wins + 1, team2_wins, games_needed, t, Advance(p, 1))
         ELSE play_series(team1_wins, team2_wins + 1, games_needed, t, Advance(p, 1))
    ELSE [team1_wins |-> team1_wins, team2_wins |-> team2_wins, pos |-> p]

\* Wins needed without the "+ 1".
games_needed_for_half(series_length) == series_length \div 2

\* playoff_predictor.py:338
games_needed_for(series_length) == (series_length \div 2) + 1

\* playoff_predictor.py:334-346
simulate_single_series(series_length, t, p) ==
    play_series(0, 0, games_needed_for(series_length), t, p)

\* playoff_predictor.py:348-355; random.choice takes one draw, TRUE picks the
\* first element.  The probability is in thousandths.
predict_series_length(stronger_team_prob, t, p) ==
    LET choices == IF stronger_team_prob >= 700 THEN <<4, 5>>
                   ELSE IF stronger_team_prob >= 600 THEN <<5, 6>>
                   ELSE <<6, 7>>
    IN  IF t[p] THEN choices[1] ELSE choices[2]

\* playoff_predictor.py:307-308: the sampling loop, k samples still to draw;
\* the result lists (t1_wins, t2_wins) of every sample.
RECURSIVE sample_series(_, _, _, _)
sample_series(k, series_length, t, p) ==
    IF k = 0
    THEN [samples |-> <<>>, pos |-> p]
    ELSE LET s    == simulate_single_series(series_length, t, p)
             rest == sample_series(k - 1, series_length, t, s.pos)
         IN  [samples |-> <<[team1_wins |-> s.team1_wins, team2_wins |-> s.team2_wins]>>
                              \o rest.samples,
              pos |-> rest.pos]

\* playoff_predictor.py:309-312
count_team1_series_wins(samples) ==
    Cardinality({i \in 1..Len(samples) : samples[i].team1_wins > samples[i].team2_wins})

\* playoff_predictor.py:319: team1 if team1_series_prob > 0.5 else team2
predicted_winner_of(team1, team2, team1_series_wins, n) ==
    IF 2 * team1_series_wins > n THEN team1 ELSE team2

\* playoff_predictor.py:309-322: the outcome record from the samples drawn.
series_outcome(team1, team2, series_length, team1_game_win_prob, sampled, t) ==
    [team1 |-> team1,
     team2 |-> team2,
     series_length |-> series_length,
     team1_game_win_prob |-> team1_game_win_prob,
     samples |-> sampled.samples,
     team1_series_wins |-> count_team1_series_wins(sampled.samples),
     team1_series_probability |->
         Round3(Probability(count_team1_series_wins(sampled.samples), SeriesSimulations)),
     team2_series_probability |->
         Round3(OneMinus(Probability(count_team1_series_wins(sampled.samples),
                                     SeriesSimulations))),
     predicted_winner |->
         predicted_winner_of(team1, team2, count_team1_series_wins(sampled.samples),
                             SeriesSimulations),
     confidence |->
         IF 2 * count_team1_series_wins(sampled.samples) >= SeriesSimulations
         THEN Round3(Probability(count_team1_series_wins(sampled.samples),
                                 SeriesSimulations))
         ELSE Round3(OneMinus(Probability(count_team1_series_wins(sampled.samples),
                                          SeriesSimulations))),
     predicted_games |-> predict_series_length(team1_game_win_prob, t, sampled.pos),
     pos |-> Advance(sampled.pos, 1)]

\* playoff_predictor.py:289-322
predict_series(team1, team2, series_length, ratings, t, p) ==
    series_outcome(team1, team2, series_length,
                   game_win_prob(Rating(ratings, team1.team_id),
                                 Rating(ratings, team2.team_id)),
                   sample_series(SeriesSimulations, series_length, t, p),
                   t)

\* An empty dict / a missing key.
EmptyDict == <<>>

\* playoff_predictor.py:232-254, one conference
create_play_in_tournament(teams) ==
    LET play_in_teams == Slice(teams, 6, 10)
    IN  IF Len(play_in_teams) >= 4
        THEN [game_1 |-> <<play_in_teams[1], play_in_teams[2]>>,
              game_2 |-> <<play_in_teams[3], play_in_teams[4]>>]
        ELSE EmptyDict

\* playoff_predictor.py:261-266
bracket_playoff_teams(teams) ==
    IF Len(teams) >= 8 THEN Slice(teams, 0, 6) \o Slice(teams, 6, 8) ELSE Slice(teams, 0, 6)

\* playoff_predictor.py:270-275
bracket_first_round_pairs(playoff_teams) ==
    << <<playoff_teams[1], playoff_teams[8]>>, <<playoff_teams[2], playoff_teams[7]>>,
       <<playoff_teams[3], playoff_teams[6]>>, <<playoff_teams[4], playoff_teams[5]>> >>

\* playoff_predictor.py:391-394
bracket_semifinal_pairs(winners) ==
    << <<winners[1], winners[4]>>, <<winners[2], winners[3]>> >>

\* The series of a list of matchups, predicted one after the other; `done`
\* holds the series predicted so far.
RECURSIVE predict_all(_, _, _, _, _)
predict_next(matchups, done, first, ratings, t) ==
    predict_all(Tail(matchups), Append(done, first), ratings, t, first.pos)

predict_all(matchups, done, ratings, t, p) ==
    IF matchups = <<>>
    THEN [series |-> done, pos |-> p]
    ELSE predict_next(matchups, done,
                      predict_series(matchups[1][1], matchups[1][2],
                                     DefaultSeriesLength, ratings, t, p),
                      ratings, t)

\* The first-listed team of every series advances.
Winners_first_listed(series) == [i \in 1..Len(series) |-> series[i].team1]

\* playoff_predictor.py:384-387
Winners(series) == [i \in 1..Len(series) |-> series[i].predicted_winner]

\* A round built for Eastern, then for Western (dict order).
BothConferences(east, west) ==
    [series |-> [c \in ConferenceSet |-> IF c = "Eastern" THEN east.series ELSE west.series],
     pos |-> west.pos]

\* playoff_predictor.py:256-287, one conference
first_round_of(teams, ratings, t, p) ==
    IF Len(bracket_playoff_teams(teams)) >= 8
    THEN predict_all(bracket_first_round_pairs(bracket_playoff_teams(teams)),
                     <<>>, ratings, t, p)
    ELSE [series |-> <<>>, pos |-> p]

first_round_western(east, st, ratings, t) ==
    BothConferences(east, first_round_of(st["Western"], ratings, t, east.pos))

\* playoff_predictor.py:256-287
create_first_round(st, ratings, t, p) ==
    first_round_western(first_round_of(st["Eastern"], ratings, t, p), st, ratings, t)

\* playoff_predictor.py:377-406, one conference
semifinals_of(matchups, ratings, t, p) ==
    IF Len(matchups) >= 4
    THEN predict_all(bracket_semifinal_pairs(Winners(matchups)), <<>>, ratings, t, p)
    ELSE [series |-> <<>>, pos |-> p]

semifinals_western(east, first_round, ratings, t) ==
    BothConferences(east, semifinals_of(first_round["Western"], ratings, t, east.pos))

\* playoff_predictor.py:377-406
create_conference_semifinals(first_round, ratings, t, p) ==
    semifinals_western(semifinals_of(first_round["Eastern"], ratings, t, p),
                       first_round, ratings, t)

\* playoff_predictor.py:408-427, one conference: one matchup, or the empty dict
conference_final_of(matchups, ratings, t, p) ==
    IF Len(matchups) >= 2
    THEN predict_all(<< <<Winners(matchups)[1], Winners(matchups)[2]>> >>,
                     <<>>, ratings, t, p)
    ELSE [series |-> <<>>, pos |-> p]

conference_finals_western(east, semifinals, ratings, t) ==
    BothConferences(east, conference_final_of(semifinals["Western"], ratings, t, east.pos))

\* playoff_predictor.py:408-427.  series[c] is <<>> for the empty dict and
\* <<matchup>> otherwise.
create_conference_finals(semifinals, ratings, t, p) ==
    conference_finals_western(conference_final_of(semifinals["Eastern"], ratings, t, p),
                              semifinals, ratings, t)

\* playoff_predictor.py:432-433: .get('series_prediction', {}).get('predicted_winner')
champion_of(conference_final) ==
    IF conference_final = <<>> THEN None ELSE conference_final[1].predicted_winner

\* playoff_predictor.py:429-445
create_nba_finals(conference_finals, ratings, t, p) ==
    IF champion_of(conference_finals["Eastern"]) # None
       /\ champion_of(conference_finals["Western"]) # None
    THEN predict_all(<< <<champion_of(conference_finals["Eastern"]),
                          champion_of(conference_finals["Western"])>> >>,
                     <<>>, ratings, t, p)
    ELSE [series |-> <<>>, pos |-> p]

\* playoff_predictor.py:215-223
bracket_record(st, start, first_round, semifinals, conference_finals, nba_finals) ==
    [start |-> start,
     play_in |-> [c \in ConferenceSet |-> create_play_in_tournament(st[c])],
     playoff_teams |-> [c \in ConferenceSet |-> bracket_playoff_teams(st[c])],
     first_round |-> first_round.series,
     conference_semifinals |-> semifinals.series,
     conference_finals |-> conference_finals.series,
     nba_finals |-> nba_finals.series,
     pos |-> nba_finals.pos]

\* playoff_predictor.py:213
bracket_nba_finals(st, ratings, t, start, first_round, semifinals, conference_finals) ==
    bracket_record(st, start, first_round, semifinals, conference_finals,
                   create_nba_finals(conference_finals.series, ratings, t,
                                     conference_finals.pos))

\* playoff_predictor.py:212
bracket_conference_finals(st, ratings, t, start, first_round, semifinals) ==
    bracket_nba_finals(st, ratings, t, start, first_round, semifinals,
                       create_conference_finals(semifinals.series, ratings, t,
                                                semifinals.pos))

\* playoff_predictor.py:211
bracket_semifinals(st, ratings, t, start, first_round) ==
    bracket_conference_finals(st, ratings, t, start, first_round,
                              create_conference_semifinals(first_round.series, ratings, t,
                                                           first_round.pos))

\* playoff_predictor.py:204-226
build_bracket(st, ratings, t, p) ==
    bracket_semifinals(st, ratings, t, p, create_first_round(st, ratings, t, p))

\* playoff_predictor.py:462-472, with the stream positions of the attempt
get_default_bracket(built) ==
    [start |-> built.start,
     play_in |-> [c \in ConferenceSet |-> EmptyDict],
     playoff_teams |-> [c \in ConferenceSet |-> <<>>],
     first_round |-> [c \in ConferenceSet |-> <<>>],
     conference_semifinals |-> EmptyDict,
     conference_finals |-> EmptyDict,
     nba_finals |-> EmptyDict,
     pos |-> built.pos]

\* playoff_predictor.py:204-230: the bracket built, or the default when
\* _calculate_bracket_championship_odds (line 222) raises.
generated_bracket(st, built) ==
    IF NamesMissing(st) THEN get_default_bracket(built) ELSE built

\* ---------------------------------------- S3PredictionStorage (pure)
\* s3_prediction_storage.py:40: the date of datetime.now(), time in hours.
DateOf(time) == time \div HoursPerDay

\* s3_prediction_storage.py:33-42.  The key names the date, the operation and
\* a hash of the keyword parameters; the hash is taken to separate the
\* parameter values explored here.
generate_prediction_key(operation, params, time) ==
    [date |-> DateOf(time), operation |-> operation, params |-> params]

\* The ttl_hours of the three decorated operations (playoff_predictor.py:68,
\* 193; championship_calculator.py:27).
TtlHours(operation) ==
    CASE operation = "conference_standings" -> 1
      [] operation = "playoff_bracket" -> 2
      [] operation = "championship_odds" -> 6

\* json.dumps followed by json.loads (lines 69 and 104): the integer keys of
\* round_probabilities come back as strings; lists and string-keyed dicts
\* come back equal.
json_round_trip(operation, data) ==
    IF operation = "championship_odds"
    THEN [data EXCEPT !.round_probabilities =
             [k \in {ToString(id) : id \in DOMAIN @} |->
                 @[CHOOSE id \in DOMAIN @ : ToString(id) = k]]]
    ELSE data

\* s3_prediction_storage.py:52-91.  put_fails: put_object raises, and the
\* method re-raises.
store_prediction(storage, operation, data, ttl_hours, params, time, put_fails) ==
    IF put_fails
    THEN [raised |-> TRUE, s3 |-> storage]
    ELSE [raised |-> FALSE,
          s3 |-> [k \in DOMAIN storage \cup {generate_prediction_key(operation, params, time)}
                  |-> IF k = generate_prediction_key(operation, params, time)
                      THEN [operation |-> operation,
                            parameters |-> params,
                            data |-> json_round_trip(operation, data),
                            created_at |-> time,
                            expires_at |-> time + ttl_hours]
                      ELSE storage[k]]]

\* s3_prediction_storage.py:198-204: a failing delete is logged and ignored.
delete_prediction(storage, key, delete_fails) ==
    IF delete_fails THEN storage
    ELSE [k \in DOMAIN storage \ {key} |-> storage[k]]

\* A retrieve that never looks at expires_at.
retrieve_prediction_unexpiring(storage, operation, params, time, get_fails, delete_fails) ==
    IF get_fails
       \/ generate_prediction_key(operation, params, time) \notin DOMAIN storage
    THEN [raised |-> FALSE, found |-> FALSE, data |-> <<>>, deletes |-> 0, s3 |-> storage]
    ELSE [raised |-> FALSE, found |-> TRUE,
          data |-> storage[generate_prediction_key(operation, params, time)].data,
          deletes |-> 0, s3 |-> storage]

\* A retrieve that lets the error of get_object through to its caller.
retrieve_prediction_raising(storage, operation, params, time, get_fails, delete_fails) ==
    IF get_fails
    THEN [raised |-> TRUE, found |-> FALSE, data |-> <<>>, deletes |-> 0, s3 |-> storage]
    ELSE IF generate_prediction_key(operation, params, time) \notin DOMAIN storage
    THEN [raised |-> FALSE, found |-> FALSE, data |-> <<>>, deletes |-> 0, s3 |-> storage]
    ELSE IF time > storage[generate_prediction_key(operation, params, time)].expires_at
    THEN [raised |-> FALSE, found |-> FALSE, data |-> <<>>, deletes |-> 1,
          s3 |-> delete_prediction(storage,
                                   generate_prediction_key(operation, params, time),
                                   delete_fails)]
    ELSE [raised |-> FALSE, found |-> TRUE,
          data |-> storage[generate_prediction_key(operation, params, time)].data,
          deletes |-> 0, s3 |-> storage]

\* s3_prediction_storage.py:93-126.  get_fails: get_object raises an error
\* other than NoSuchKey, or the object cannot be parsed; both return None.
retrieve_prediction(storage, operation, params, time, get_fails, delete_fails) ==
    IF get_fails
       \/ generate_prediction_key(operation, params, time) \notin DOMAIN storage
    THEN [raised |-> FALSE, found |-> FALSE, data |-> <<>>, deletes |-> 0, s3 |-> storage]
    ELSE IF time > storage[generate_prediction_key(operation, params, time)].expires_at
    THEN [raised |-> FALSE, found |-> FALSE, data |-> <<>>, deletes |-> 1,
          s3 |-> delete_prediction(storage,
                                   generate_prediction_key(operation, params, time),
                                   delete_fails)]
    ELSE [raised |-> FALSE, found |-> TRUE,
          data |-> storage[generate_prediction_key(operation, params, time)].data,
          deletes |-> 0, s3 |-> storage]

\* ------------------------------------------- s3_cached_prediction (pure)
\* Keyword arguments: the set of (name, value) pairs of **kwargs.
KwargNames(kwargs) == {kv[1] : kv \in kwargs}

KwargValue(kwargs, name) == (CHOOSE kv \in kwargs : kv[1] = name)[2]

\* One activation of the wrapper of s3_prediction_storage.py:321-351: the
\* call's arguments (without self), the wrapper's position, what it has done
\* so far, and the standings a nested simulate_season_standings() returned.
NewFrame(operation, args, kwargs) ==
    [operation |-> operation, args |-> args, kwargs |-> kwargs,
     pc |-> "retrieve", lookups |-> 0, executed |-> 0,
     hit |-> FALSE, get_failed |-> FALSE, put_failed |-> FALSE, stored |-> FALSE,
     exception |-> FALSE, has_standings |-> FALSE, standings |-> <<>>,
     result |-> <<>>, end |-> 0, deletes |-> 0]

\* The `simulations` parameter as Python binds it: simulate_season_standings
\* (self, simulations=1000), calculate_comprehensive_odds(self, standings=None,
\* simulations=5000).
BoundSimulations(f) ==
    IF f.operation = "conference_standings"
    THEN IF Len(f.args) >= 1 THEN f.args[1]
         ELSE IF "simulations" \in KwargNames(f.kwargs)
         THEN KwargValue(f.kwargs, "simulations")
         ELSE DefaultSeasonSimulations
    ELSE IF Len(f.args) >= 2 THEN f.args[2]
         ELSE IF "simulations" \in KwargNames(f.kwargs)
         THEN KwargValue(f.kwargs, "simulations")
         ELSE DefaultOddsSimulations

\* The `standings` parameter is bound to a value other than None.
StandingsGiven(f) ==
    Len(f.args) >= 1 \/ "standings" \in KwargNames(f.kwargs)

\* playoff_predictor.py:205-206, championship_calculator.py:40-41: the
\* standings the operation works on.
StandingsFor(f) ==
    IF Len(f.args) >= 1 THEN f.args[1]
    ELSE IF "standings" \in KwargNames(f.kwargs) THEN KwargValue(f.kwargs, "standings")
    ELSE f.standings

\* s3_prediction_storage.py:340: func(*args, **kwargs)
wrapped_function(f, ratings, t, p) ==
    CASE f.operation = "conference_standings" ->
             standings_results(BoundSimulations(f), t, p)
      [] f.operation = "playoff_bracket" ->
             generated_bracket(StandingsFor(f),
                               build_bracket(StandingsFor(f), ratings, t, p))
      [] f.operation = "championship_odds" ->
             comprehensive_odds(StandingsFor(f), BoundSimulations(f), t, p)

\* The value the wrapped function returns, without the stream positions.
DataOf(operation, raw) ==
    CASE operation = "conference_standings" -> raw.standings
      [] operation = "playoff_bracket" ->
             [k \in DOMAIN raw \ {"start", "pos"} |-> raw[k]]
      [] operation = "championship_odds" -> raw.odds

\* s3_prediction_storage.py:340 done: the frame holds the result.
after_execute(f, raw) ==
    [f EXCEPT !.pc = "store", !.executed = @ + 1,
              !.result = DataOf(f.operation, raw), !.end = raw.pos]

\* A lookup whose hit still runs the wrapped function.
after_retrieve_recomputing(f, r, get_fails) ==
    IF r.raised
    THEN [f EXCEPT !.pc = "return", !.lookups = @ + 1, !.exception = TRUE]
    ELSE [f EXCEPT !.pc = "execute", !.lookups = @ + 1, !.get_failed = get_fails,
                   !.hit = r.found, !.result = r.data, !.deletes = r.deletes]

\* s3_prediction_storage.py:328-339: a cached result is returned, otherwise
\* the function is executed.  An exception of the lookup would leave the
\* wrapper.
after_retrieve(f, r, get_fails) ==
    IF r.raised
    THEN [f EXCEPT !.pc = "return", !.lookups = @ + 1, !.exception = TRUE]
    ELSE IF r.found
    THEN [f EXCEPT !.pc = "return", !.lookups = @ + 1, !.hit = TRUE, !.result = r.data]
    ELSE [f EXCEPT !.pc = "execute", !.lookups = @ + 1, !.get_failed = get_fails,
                   !.deletes = r.deletes]

\* s3_prediction_storage.py:342-351: an exception of the store is logged.
after_store(f, r) ==
    [f EXCEPT !.pc = "return", !.put_failed = r.raised, !.stored = ~r.raised]

\* ------------------------------------------------------------------ state
VARIABLES
    tape,            \* the pseudo-random stream (fixed per behaviour)
    pos,             \* read position in the stream
    team_ratings,    \* prediction_service.team_ratings
    standings,       \* the standings argument: conference -> list of entries
    pc,              \* which operation is running / has returned
    simulations,     \* argument of calculate_comprehensive_odds
    sim,             \* loop variable of _run_championship_simulations
    team_results,    \* the tallies of _run_championship_simulations
    playoff_result,  \* result of the latest _simulate_single_playoff
    odds,            \* value returned by calculate_comprehensive_odds
    bracket,         \* value returned by generate_playoff_bracket
    brackets,        \* every bracket generate_playoff_bracket has returned so far
    series,          \* value returned by _predict_series to the series endpoint
    s3,              \* the bucket: key -> stored object
    now,             \* datetime.now(), in hours
    stack,           \* activations of the s3_cached_prediction wrapper, innermost last
    calls,           \* calls of cached operations made so far
    is_running,      \* BackgroundProcessor.is_running
    thread,          \* BackgroundProcessor.thread: the thread created last, 0 for None
    scheduler,       \* position of every scheduler thread created so far
    jobs,            \* jobs registered with the schedule module
    caller           \* position of every thread calling start or stop

vars == <<tape, pos, team_ratings, standings, pc, simulations, sim, team_results,
          playoff_result, odds, bracket, brackets, series, s3, now, stack, calls,
          is_running, thread, scheduler, jobs, caller>>

\* The variables of the cache.
cache_vars == <<s3, now, stack, calls>>

\* The variables of the background processor.
background_vars == <<is_running, thread, scheduler, jobs, caller>>

\* The threads that call start_background_processing and
\* stop_background_processing.
Callers == 1..MaxCallers

\* The variables of the operations other than the stream position.
core_vars == <<tape, team_ratings, standings, pc, simulations, sim, team_results,
               playoff_result, odds, bracket, brackets, series>>

NoResult == [raised |-> FALSE, none |-> TRUE]

AllTeamIds == {ConferenceBase(c) + r : c \in ConferenceSet, r \in 1..MaxTeams}

\* Rating tables explored: the empty table of enhanced_prediction_service.py:42
\* (every lookup falls back to 1500) and one graded by seed.
RatingProfiles ==
    {<<>>, [id \in AllTeamIds |-> 1650 - 25 * (id % 100)]}

Tapes == [0..(TapeLen - 1) -> BOOLEAN]

StandingsOfSizes(e, w) ==
    [c \in ConferenceSet |-> ConferenceStandings(c, IF c = "Eastern" THEN e ELSE w)]

InitCommon ==
    /\ tape \in Tapes
    /\ pos = 0
    /\ team_ratings \in RatingProfiles
    /\ pc = "idle"
    /\ simulations = 0
    /\ sim = 0
    /\ team_results = <<>>
    /\ playoff_result = NoResult
    /\ odds = <<>>
    /\ bracket = <<>>
    /\ brackets = {}
    /\ series = <<>>
    /\ s3 = <<>>
    /\ now = HoursPerDay - 1
    /\ stack = <<>>
    /\ calls = 0
    /\ is_running = FALSE
    /\ thread = 0
    /\ scheduler = <<>>
    /\ jobs = 0
    /\ caller = [c \in Callers |-> "idle"]

Init ==
    /\ InitCommon
    /\ \E e \in StandingsSizes, w \in StandingsSizes : standings = StandingsOfSizes(e, w)

\* calculate_comprehensive_odds up to the simulation loop
\* (championship_calculator.py:39-53, 70-86).
calculate_comprehensive_odds(n) ==
    /\ pc = "idle"
    /\ pc' = "simulating"
    /\ simulations' = n
    /\ sim' = 0
    /\ team_results' = init_team_results(standings)
    /\ UNCHANGED <<tape, pos, team_ratings, standings, playoff_result, odds, bracket,
                   brackets, series>>
    /\ UNCHANGED cache_vars
    /\ UNCHANGED background_vars

\* championship_calculator.py:90-91 given the simulated playoff pr.
simulation_step(pr) ==
    /\ playoff_result' = pr
    /\ pos' = pr.pos
    /\ IF pr.raised
       THEN /\ pc' = "odds_done"
            /\ odds' = get_default_odds
            /\ UNCHANGED <<sim, team_results>>
       ELSE /\ team_results' = update_team_results(team_results, pr)
            /\ sim' = sim + 1
            /\ UNCHANGED <<pc, odds>>

\* One iteration of `for sim in range(simulations)` (lines 89-91); an
\* exception leaves through the handler of lines 64-66.
run_simulation ==
    /\ pc = "simulating"
    /\ sim < simulations
    /\ simulation_step(simulate_single_playoff(standings, tape, pos))
    /\ UNCHANGED <<tape, team_ratings, standings, simulations, bracket, brackets, series>>
    /\ UNCHANGED cache_vars
    /\ UNCHANGED background_vars

\* championship_calculator.py:43-59
format_odds(probs) == results_of(standings, simulations, probs)

\* After the loop: lines 96-102 and 56-62.  Dividing by simulations = 0
\* raises ZeroDivisionError as soon as there is a team to convert.
return_odds ==
    /\ pc = "simulating"
    /\ sim >= simulations
    /\ pc' = "odds_done"
    /\ IF simulations = 0 /\ DOMAIN team_results # {}
       THEN odds' = get_default_odds
       ELSE odds' = format_odds(to_probabilities(team_results, simulations))
    /\ UNCHANGED <<tape, pos, team_ratings, standings, simulations, sim, team_results,
                   playoff_result, bracket, brackets, series>>
    /\ UNCHANGED cache_vars
    /\ UNCHANGED background_vars

\* The operation returns `result` into `variable`; the stream has advanced.
returned(result, variable) ==
    /\ variable' = result
    /\ pos' = result.pos

\* A call whose draws also depend on how many brackets were built before.
generate_playoff_bracket_counting ==
    /\ pc \in {"idle", "bracket_done"}
    /\ pc' = "bracket_done"
    /\ bracket' = [build_bracket(standings, team_ratings, tape,
                                 Advance(pos, Cardinality(brackets)))
                       EXCEPT !.start = pos]
    /\ pos' = bracket'.pos
    /\ brackets' = brackets \cup {bracket'}
    /\ UNCHANGED <<tape, team_ratings, standings, simulations, sim, team_results,
                   playoff_result, odds, series>>
    /\ UNCHANGED cache_vars
    /\ UNCHANGED background_vars

\* playoff_predictor.py:193-230 with standings given.  The endpoint may be
\* called again once a bracket has been returned.
generate_playoff_bracket ==
    /\ pc \in {"idle", "bracket_done"}
    /\ pc' = "bracket_done"
    /\ returned(generated_bracket(standings,
                                   build_bracket(standings, team_ratings, tape, pos)),
                bracket)
    /\ brackets' = brackets \cup {bracket'}
    /\ UNCHANGED <<tape, team_ratings, standings, simulations, sim, team_results,
                   playoff_result, odds, series>>
    /\ UNCHANGED cache_vars
    /\ UNCHANGED background_vars

\* app.py:468-489: the endpoint builds the two team records (ranks 1 and 2)
\* and passes series_length through.
predict_playoff_series(team1_id, team2_id, series_length) ==
    /\ pc = "idle"
    /\ pc' = "series_done"
    /\ returned(predict_series([team_id |-> team1_id, rank |-> 1],
                                [team_id |-> team2_id, rank |-> 2],
                                series_length, team_ratings, tape, pos), series)
    /\ UNCHANGED <<tape, team_ratings, standings, simulations, sim, team_results,
                   playoff_result, odds, bracket, brackets>>
    /\ UNCHANGED cache_vars
    /\ UNCHANGED background_vars

\* playoff_predictor.py:68-109; the returned standings are the ones later
\* handed to the bracket (app.py:526-533).
simulate_season_standings(n) ==
    /\ pc \in {"idle", "standings_done"}
    /\ pc' = "standings_done"
    /\ simulations' = n
    /\ standings' = standings_results(n, tape, pos).standings
    /\ pos' = standings_results(n, tape, pos).pos
    /\ UNCHANGED <<tape, team_ratings, sim, team_results, playoff_result, odds, bracket,
                   brackets, series>>
    /\ UNCHANGED cache_vars
    /\ UNCHANGED background_vars

\* Team ids sent to the series endpoint: seeds 1, 5, 8 and an unknown team.
SeriesTeamIds == {101, 105, 108, 999}

SeriesLengths == (0 - 1)..DefaultSeriesLength

Next ==
    \/ \E n \in 0..MaxSims : calculate_comprehensive_odds(n)
    \/ run_simulation
    \/ return_odds
    \/ generate_playoff_bracket

Spec == Init /\ [][Next]_vars

InitSeries ==
    /\ InitCommon
    /\ standings = StandingsOfSizes(0, 0)

NextSeries ==
    \E a \in SeriesTeamIds, b \in SeriesTeamIds, n \in SeriesLengths :
        predict_playoff_series(a, b, n)

SpecSeries == InitSeries /\ [][NextSeries]_vars

NextSeason == \E n \in 0..MaxSims : simulate_season_standings(n)

SpecSeason == InitSeries /\ [][NextSeason]_vars

\* ------------------------------------------------- cached operations
Top == stack[Len(stack)]

SetTop(f) == [stack EXCEPT ![Len(stack)] = f]

\* A caller invokes a decorated method: the wrapper starts
\* (s3_prediction_storage.py:321-326).
call_cached(operation, args, kwargs) ==
    /\ stack = <<>>
    /\ calls < MaxCalls
    /\ calls' = calls + 1
    /\ stack' = <<NewFrame(operation, args, kwargs)>>
    /\ UNCHANGED <<pos, s3, now>>
    /\ UNCHANGED core_vars
    /\ UNCHANGED background_vars

\* app.py:395: simulate_season_standings(simulations)
get_conference_standings(n) == call_cached("conference_standings", <<n>>, {})

\* background_processor.py:81-84: simulate_season_standings(simulations=
\* simulations), for positive counts only
populate_standings_cache(n) ==
    call_cached("conference_standings", <<>>, {<<"simulations", n>>})

\* app.py:425, background_processor.py:104: generate_playoff_bracket()
populate_bracket_cache == call_cached("playoff_bracket", <<>>, {})

\* app.py:523-531: generate_playoff_bracket(standings) with the standings of
\* the request
simulate_full_tournament(st) == call_cached("playoff_bracket", <<st>>, {})

\* app.py:445: calculate_comprehensive_odds(simulations=simulations)
get_championship_odds(n) ==
    call_cached("championship_odds", <<>>, {<<"simulations", n>>})

\* app.py:572: calculate_comprehensive_odds()
get_team_playoff_odds == call_cached("championship_odds", <<>>, {})

\* Standings sent with a tournament request.
RequestStandings == {StandingsOfSizes(10, 8)}

\* The lookup r has been made.
retrieved(r, get_fails) ==
    /\ s3' = r.s3
    /\ stack' = SetTop(after_retrieve(Top, r, get_fails))

\* s3_prediction_storage.py:328-336
wrapper_retrieve ==
    /\ stack # <<>>
    /\ Top.pc = "retrieve"
    /\ \E get_fails \in BOOLEAN, delete_fails \in BOOLEAN :
           retrieved(retrieve_prediction(s3, Top.operation, Top.kwargs, now,
                                         get_fails, delete_fails),
                     get_fails)
    /\ UNCHANGED <<pos, now, calls>>
    /\ UNCHANGED core_vars
    /\ UNCHANGED background_vars

\* s3_prediction_storage.py:340.  A bracket or odds call without standings
\* first calls simulate_season_standings() (playoff_predictor.py:205-206,
\* championship_calculator.py:40-41), itself a decorated method.
wrapper_execute ==
    /\ stack # <<>>
    /\ Top.pc = "execute"
    /\ IF Top.operation # "conference_standings" /\ ~StandingsGiven(Top)
          /\ ~Top.has_standings
       THEN /\ stack' = Append(stack, NewFrame("conference_standings", <<>>, {}))
            /\ pos' = pos
       ELSE /\ stack' = SetTop(after_execute(Top, wrapped_function(Top, team_ratings,
                                                                   tape, pos)))
            /\ pos' = stack'[Len(stack)].end
    /\ UNCHANGED <<s3, now, calls>>
    /\ UNCHANGED core_vars
    /\ UNCHANGED background_vars

\* The store r has been attempted.
stored(r) ==
    /\ s3' = r.s3
    /\ stack' = SetTop(after_store(Top, r))

\* s3_prediction_storage.py:342-349
wrapper_store ==
    /\ stack # <<>>
    /\ Top.pc = "store"
    /\ \E put_fails \in BOOLEAN :
           stored(store_prediction(s3, Top.operation, Top.result,
                                   TtlHours(Top.operation), Top.kwargs, now, put_fails))
    /\ UNCHANGED <<pos, now, calls>>
    /\ UNCHANGED core_vars
    /\ UNCHANGED background_vars

\* s3_prediction_storage.py:336, 351: the wrapper returns, to the endpoint or
\* to the operation that asked for standings.
wrapper_return ==
    /\ stack # <<>>
    /\ Top.pc = "return"
    /\ IF Len(stack) = 1
       THEN stack' = <<>>
       ELSE stack' = <<[stack[1] EXCEPT !.has_standings = TRUE,
                                       !.standings = Top.result]>>
    /\ UNCHANGED <<pos, s3, now, calls>>
    /\ UNCHANGED core_vars
    /\ UNCHANGED background_vars

\* An hour passes between two calls.
tick ==
    /\ stack = <<>>
    /\ now < HoursPerDay - 1 + MaxTicks
    /\ now' = now + 1
    /\ UNCHANGED <<pos, s3, stack, calls>>
    /\ UNCHANGED core_vars
    /\ UNCHANGED background_vars

\* The `simulations` values sent by the callers.
SimulationArgs == {0, MaxSims}

\* The stream explored with the cache: alternating draws.
CacheTapes ==
    {[i \in 0..(TapeLen - 1) |-> i % 2 = 0]}

InitCache ==
    /\ InitSeries
    /\ tape \in CacheTapes
    /\ team_ratings = <<>>

NextCache ==
    \/ \E n \in SimulationArgs : get_conference_standings(n)
    \/ populate_standings_cache(MaxSims)
    \/ populate_bracket_cache
    \/ \E st \in RequestStandings : simulate_full_tournament(st)
    \/ \E n \in SimulationArgs : get_championship_odds(n)
    \/ get_team_playoff_odds
    \/ wrapper_retrieve
    \/ wrapper_execute
    \/ wrapper_store
    \/ wrapper_return
    \/ tick

SpecCache == InitCache /\ [][NextCache]_vars

\* ------------------------------------------------ BackgroundProcessor
\* The variables other than those of the background processor.
foreground_vars == <<tape, pos, team_ratings, standings, pc, simulations, sim,
                     team_results, playoff_result, odds, bracket, brackets, series,
                     s3, now, stack, calls>>

\* The caller c moves to position next.
goes(c, next) == caller' = [caller EXCEPT ![c] = next]

\* The scheduler threads that are executing _run_scheduler.
Executing == {t \in 1..Len(scheduler) : scheduler[t] # "exited"}

\* Starts under way that have not yet created their thread.
Starting == {c \in Callers : caller[c] \in {"start_check", "start_set",
                                            "start_schedule", "start_thread"}}

\* A thread calls start_background_processing (background_processor.py:31).
begin_start(c) ==
    /\ caller[c] = "idle"
    /\ Len(scheduler) + Cardinality(Starting) < MaxThreads
    /\ goes(c, "start_check")
    /\ UNCHANGED <<is_running, thread, scheduler, jobs>>
    /\ UNCHANGED foreground_vars

\* background_processor.py:33-34: if self.is_running: return
start_check(c) ==
    /\ caller[c] = "start_check"
    /\ IF is_running THEN goes(c, "idle") ELSE goes(c, "start_set")
    /\ UNCHANGED <<is_running, thread, scheduler, jobs>>
    /\ UNCHANGED foreground_vars

\* background_processor.py:36: self.is_running = True
start_set(c) ==
    /\ caller[c] = "start_set"
    /\ is_running' = TRUE
    /\ goes(c, "start_schedule")
    /\ UNCHANGED <<thread, scheduler, jobs>>
    /\ UNCHANGED foreground_vars

\* background_processor.py:39-44: the three jobs are registered and the
\* initial population is handed to its own threads.
start_schedule(c) ==
    /\ caller[c] = "start_schedule"
    /\ jobs' = jobs + 3
    /\ goes(c, "start_thread")
    /\ UNCHANGED <<is_running, thread, scheduler>>
    /\ UNCHANGED foreground_vars

\* background_processor.py:47-48: the scheduler thread is created and started.
start_thread(c) ==
    /\ caller[c] = "start_thread"
    /\ scheduler' = Append(scheduler, "test")
    /\ thread' = Len(scheduler) + 1
    /\ goes(c, "idle")
    /\ UNCHANGED <<is_running, jobs>>
    /\ UNCHANGED foreground_vars

\* A thread calls stop_background_processing (background_processor.py:52).
begin_stop(c) ==
    /\ caller[c] = "idle"
    /\ goes(c, "stop_set")
    /\ UNCHANGED <<is_running, thread, scheduler, jobs>>
    /\ UNCHANGED foreground_vars

\* background_processor.py:54: self.is_running = False
stop_set(c) ==
    /\ caller[c] = "stop_set"
    /\ is_running' = FALSE
    /\ goes(c, "stop_clear")
    /\ UNCHANGED <<thread, scheduler, jobs>>
    /\ UNCHANGED foreground_vars

\* background_processor.py:55: schedule.clear()
stop_clear(c) ==
    /\ caller[c] = "stop_clear"
    /\ jobs' = 0
    /\ goes(c, "idle")
    /\ UNCHANGED <<is_running, thread, scheduler>>
    /\ UNCHANGED foreground_vars

\* The scheduler thread t moves to position next.
moves(t, next) == scheduler' = [scheduler EXCEPT ![t] = next]

\* background_processor.py:60: while self.is_running
scheduler_test(t) ==
    /\ scheduler[t] = "test"
    /\ IF is_running THEN moves(t, "run_pending") ELSE moves(t, "exited")
    /\ UNCHANGED <<is_running, thread, jobs, caller>>
    /\ UNCHANGED foreground_vars

\* background_processor.py:61-62: schedule.run_pending(), then time.sleep(60)
\* begins.
scheduler_run_pending(t) ==
    /\ scheduler[t] = "run_pending"
    /\ moves(t, "sleep")
    /\ UNCHANGED <<is_running, thread, jobs, caller>>
    /\ UNCHANGED foreground_vars

\* background_processor.py:62: the sleep ends.
scheduler_wake(t) ==
    /\ scheduler[t] = "sleep"
    /\ moves(t, "test")
    /\ UNCHANGED <<is_running, thread, jobs, caller>>
    /\ UNCHANGED foreground_vars

NextBackground ==
    \/ \E c \in Callers : begin_start(c)
    \/ \E c \in Callers : start_check(c)
    \/ \E c \in Callers : start_set(c)
    \/ \E c \in Callers : start_schedule(c)
    \/ \E c \in Callers : start_thread(c)
    \/ \E c \in Callers : begin_stop(c)
    \/ \E c \in Callers : stop_set(c)
    \/ \E c \in Callers : stop_clear(c)
    \/ \E t \in 1..Len(scheduler) : scheduler_test(t)
    \/ \E t \in 1..Len(scheduler) : scheduler_run_pending(t)
    \/ \E t \in 1..Len(scheduler) : scheduler_wake(t)

SpecBackground == InitCache /\ [][NextBackground]_vars

\* -------------------------------------------------------------- properties
\* The latest simulated playoff ran to its end.
SimulatedOK == "conf" \in DOMAIN playoff_result

BothAtLeast(n) == Len(standings["Eastern"]) >= n /\ Len(standings["Western"]) >= n

Distinct(s) == \A i, j \in 1..Len(s) : i # j => s[i] # s[j]

\* C1: after N >= 1 simulations over standings with at least 10 teams per
\* conference every team's tallies are non-increasing in round order:
\* play_in >= first_round >= conference_semifinals >= conference_finals >=
\* finals_appearances >= championships.
C1_RoundTalliesNonIncreasing ==
    (pc \in {"simulating", "odds_done"} /\ sim >= 1 /\ BothAtLeast(10)) =>
        \A id \in DOMAIN team_results :
            LET r == team_results[id]
            IN  /\ r.play_in >= r.first_round
                /\ r.first_round >= r.conference_semifinals
                /\ r.conference_semifinals >= r.conference_finals
                /\ r.conference_finals >= r.finals_appearances
                /\ r.finals_appearances >= r.championships

\* C2: with simulations >= 1 no per-team counter exceeds the number of
\* simulations run, and every reported probability lies in [0, 1]
\* (0..10000 in units of 0.0001).
C2_ProbabilitiesInUnitInterval ==
    /\ (pc \in {"simulating", "odds_done"} /\ simulations >= 1) =>
           \A id \in DOMAIN team_results : \A key \in CounterKeys :
               team_results[id][key] <= sim
    /\ (pc = "odds_done" /\ simulations >= 1) =>
           /\ \A id \in DOMAIN odds.round_probabilities :
                  \A key \in DOMAIN odds.round_probabilities[id] :
                      odds.round_probabilities[id][key] \in 0..10000
           /\ \A i \in 1..Len(odds.championship_odds) :
                  /\ odds.championship_odds[i].championship_probability \in 0..10000
                  /\ odds.championship_odds[i].finals_probability \in 0..10000
                  /\ odds.championship_odds[i].conference_finals_probability \in 0..10000
                  /\ odds.championship_odds[i].playoff_probability \in 0..10000
           /\ \A c \in ConferenceSet : \A i \in 1..Len(odds.conference_odds[c]) :
                  /\ odds.conference_odds[c][i].conference_championship_probability
                         \in 0..10000
                  /\ odds.conference_odds[c][i].playoff_probability \in 0..10000

\* The play-in of conference c was simulated in the latest playoff.
PlayInRan(c) == SimulatedOK /\ Len(standings[c]) >= 10

\* C3: the play-in among seeds 7-10 returns exactly 2 distinct qualifiers
\* drawn from those 4; the first is seed 7 or seed 8, the second is the other
\* one of seeds 7/8 or one of seeds 9/10, so seeds 9 and 10 qualify only as
\* the second qualifier and one of seeds 7/8 always qualifies.
C3_PlayInQualifiers ==
    \A c \in ConferenceSet : PlayInRan(c) =>
        LET seeds == Slice(standings[c], 6, 10)
            q     == playoff_result.conf[c].play_in_winners
        IN  /\ Len(q) = 2
            /\ q[1] # q[2]
            /\ q[1] \in {seeds[1], seeds[2]}
            /\ q[2] \in ({seeds[1], seeds[2]} \ {q[1]}) \cup {seeds[3], seeds[4]}
            /\ playoff_result.conf[c].play_in = Ids(seeds)

\* A seed 9 or seed 10 qualified as the second qualifier.
C3_Witness ==
    \E c \in ConferenceSet :
        /\ PlayInRan(c)
        /\ playoff_result.conf[c].play_in_winners[2].rank \in {9, 10}

\* C4: with at least 10 teams the first-round field is seeds 1-6 in order
\* followed by the two play-in qualifiers from seeds 7-10: 8 pairwise distinct
\* teams, none ranked 11 or lower.
C4_FirstRoundField ==
    \A c \in ConferenceSet : PlayInRan(c) =>
        LET field == playoff_result.conf[c].playoff_teams
        IN  /\ Len(field) = 8
            /\ SubSeq(field, 1, 6) = SubSeq(standings[c], 1, 6)
            /\ SubSeq(field, 7, 8) = playoff_result.conf[c].play_in_winners
            /\ {field[7], field[8]} \subseteq Range(Slice(standings[c], 6, 10))
            /\ Distinct(field)
            /\ \A i \in 1..8 : field[i].rank <= 10

\* A conference with an 11th team whose field holds seed 10.
C4_Witness ==
    \E c \in ConferenceSet :
        /\ PlayInRan(c)
        /\ Len(standings[c]) >= 11
        /\ playoff_result.conf[c].playoff_teams[8].rank = 10

\* Stream position at which the play-in of conference c is resolved when the
\* bracket resolves the play-ins first (Eastern, then Western).
BracketPlayInPos(c) == Advance(bracket.start, IF c = "Eastern" THEN 0 ELSE 3)

\* C5: in generate_playoff_bracket the teams placed against seeds 2 and 1 in
\* the first round are the two play-in qualifiers of seeds 7-10.
C5_BracketFieldFromPlayIn ==
    \A c \in ConferenceSet :
        (pc = "bracket_done" /\ Len(standings[c]) >= 10) =>
            LET q == simulate_play_in(Slice(standings[c], 6, 10), tape,
                                      BracketPlayInPos(c)).winners
            IN  /\ Len(bracket.first_round[c]) = 4
                /\ bracket.first_round[c][2].team2 = q[1]
                /\ bracket.first_round[c][1].team2 = q[2]

PairsOfField(field) ==
    << <<field[1], field[8]>>, <<field[2], field[7]>>,
       <<field[3], field[6]>>, <<field[4], field[5]>> >>

InExactlyOne(team, matchups) ==
    Cardinality({k \in 1..Len(matchups) : team \in {matchups[k][1], matchups[k][2]}}) = 1

SeriesTeams(sp) == [k \in 1..Len(sp) |-> <<sp[k].team1, sp[k].team2>>]

\* C6: for an 8-team field ordered by seed the first round is exactly 1v8,
\* 2v7, 3v6, 4v5, in the bracket and in every simulation, and every team of
\* the field plays in exactly one first-round matchup.
C6_FirstRoundPairing ==
    \A c \in ConferenceSet :
        /\ (SimulatedOK /\ Len(playoff_result.conf[c].playoff_teams) = 8) =>
               LET field == playoff_result.conf[c].playoff_teams
                   m     == playoff_result.conf[c].first_round_matchups
               IN  /\ m = PairsOfField(field)
                   /\ \A i \in 1..8 : InExactlyOne(field[i], m)
        /\ (pc = "bracket_done" /\ Len(bracket.playoff_teams[c]) = 8) =>
               LET field == bracket.playoff_teams[c]
                   m     == SeriesTeams(bracket.first_round[c])
               IN  /\ m = PairsOfField(field)
                   /\ \A i \in 1..8 : InExactlyOne(field[i], m)

\* A simulation with 8-team fields in both conferences, or a bracket with them.
C6_Witness ==
    \/ /\ SimulatedOK
       /\ \A c \in ConferenceSet : Len(playoff_result.conf[c].first_round_matchups) = 4
    \/ /\ pc = "bracket_done"
       /\ \A c \in ConferenceSet : Len(bracket.first_round[c]) = 4

MatchupIds(m) == [k \in 1..Len(m) |-> <<m[k][1].team_id, m[k][2].team_id>>]

\* C7: each simulation pairs the conference semifinals as the bracket does:
\* winner of 1v8 against winner of 4v5, winner of 2v7 against winner of 3v6.
C7_SimulationUsesBracketShape ==
    \A c \in ConferenceSet :
        (SimulatedOK /\ Len(playoff_result.conf[c].first_round) = 4) =>
            MatchupIds(playoff_result.conf[c].semifinal_matchups)
                = bracket_semifinal_pairs(playoff_result.conf[c].first_round)

\* C8: with at least 8 teams per conference every simulated playoff reduces
\* each conference 8 -> 4 -> 2 -> 1 and the finals 2 -> 1: two finals teams,
\* one per conference, and exactly one champion among them.
C8_RoundSizes ==
    BothAtLeast(8) =>
        /\ ~playoff_result.raised
        /\ SimulatedOK =>
            /\ \A c \in ConferenceSet :
                   /\ Len(playoff_result.conf[c].playoff_teams) = 8
                   /\ Len(playoff_result.conf[c].first_round) = 4
                   /\ Len(playoff_result.conf[c].conference_semifinals) = 2
                   /\ Len(playoff_result.conf[c].conference_finals) = 1
                   /\ playoff_result.conf[c].champion.team_id
                          = playoff_result.conf[c].conference_finals[1]
            /\ Len(playoff_result.finals_teams) = 2
            /\ playoff_result.finals_teams[1] \in Range(standings["Eastern"])
            /\ playoff_result.finals_teams[2] \in Range(standings["Western"])
            /\ playoff_result.champion # None
            /\ playoff_result.champion \in Range(playoff_result.finals_teams)

\* A simulated playoff over 8 and 11 teams won by the Western champion.
C8_Witness ==
    /\ SimulatedOK
    /\ Len(standings["Eastern"]) = 8
    /\ Len(standings["Western"]) > 8
    /\ playoff_result.champion = playoff_result.finals_teams[2]

\* C9: for odd series_length N >= 1 a series sample ends after at most N
\* games with exactly one side at exactly (N+1)/2 wins and the other side
\* strictly below; it never ends tied.
C9_SeriesSample ==
    (pc = "series_done" /\ series.series_length >= 1 /\ series.series_length % 2 = 1) =>
        LET n      == series.series_length
            needed == (n + 1) \div 2
        IN  /\ Len(series.samples) = SeriesSimulations
            /\ \A i \in 1..Len(series.samples) :
                   LET a == series.samples[i].team1_wins
                       b == series.samples[i].team2_wins
                   IN  /\ a + b <= n
                       /\ \/ (a = needed /\ b < needed)
                          \/ (b = needed /\ a < needed)
                       /\ a # b

\* A best-of-7 sample that went the full 7 games.
C9_Witness ==
    /\ pc = "series_done"
    /\ series.series_length = 7
    /\ \E i \in 1..Len(series.samples) :
           series.samples[i].team1_wins + series.samples[i].team2_wins = 7

\* C10: the predicted winner is the team whose sampled series probability
\* exceeds 0.5, and team1 when team1 wins exactly half of the samples.
C10_PredictedWinnerTieTeam1 ==
    pc = "series_done" =>
        /\ 2 * series.team1_series_wins > SeriesSimulations
               => series.predicted_winner = series.team1
        /\ 2 * series.team1_series_wins < SeriesSimulations
               => series.predicted_winner = series.team2
        /\ 2 * series.team1_series_wins = SeriesSimulations
               => series.predicted_winner = series.team1

\* C11: for the series lengths 3, 5 and 7 that the series endpoint passes
\* through, predicted_games of the returned outcome is at least 4 and at most
\* series_length.
C11_PredictedGamesWithinLength ==
    (pc = "series_done" /\ series.series_length \in {3, 5, 7}) =>
        /\ series.predicted_games >= 4
        /\ series.predicted_games <= series.series_length

Short(c) == Len(standings[c]) < 8

\* C13: when a conference's standings hold fewer than 8 entries the bracket
\* and the odds still complete: the bracket carries a finals matchup with a
\* predicted champion, and the odds are not the failure default.
C13_ShortStandingsStillComplete ==
    (\E c \in ConferenceSet : Short(c)) =>
        /\ pc = "bracket_done" =>
               /\ Len(bracket.nba_finals) = 1
               /\ bracket.nba_finals[1].predicted_winner # None
        /\ ~playoff_result.raised
        /\ (pc = "odds_done" /\ simulations >= 1) =>
               /\ odds.simulations_run = simulations
               /\ SimulatedOK
               /\ playoff_result.champion # None

\* calculate_comprehensive_odds left through its exception handler.
OddsRaised ==
    /\ pc = "odds_done"
    /\ \/ playoff_result.raised
       \/ (simulations = 0 /\ DOMAIN team_results # {})

\* C14: whenever a step of calculate_comprehensive_odds raises, the caller
\* receives the default structure: simulations_run = 0 and empty
\* championship_odds, conference_odds lists and round_probabilities; a returned
\* structure with a non-zero simulations_run carries the tallies of all of its
\* simulations for every team of the standings.
C14_FailureReturnsDefault ==
    /\ OddsRaised =>
           /\ odds.simulations_run = 0
           /\ odds.championship_odds = <<>>
           /\ \A c \in ConferenceSet : odds.conference_odds[c] = <<>>
           /\ odds.round_probabilities = <<>>
    /\ (pc = "odds_done" /\ odds.simulations_run # 0) =>
           /\ sim = simulations
           /\ odds.simulations_run = simulations
           /\ Len(odds.championship_odds) = Cardinality(TeamIds(standings))
           /\ DOMAIN odds.round_probabilities = TeamIds(standings)

\* A request for two simulations whose first simulated playoff raised.
C14_Witness ==
    /\ OddsRaised
    /\ playoff_result.raised
    /\ simulations = 2
    /\ DOMAIN team_results # {}

\* Every team of the matchups is in `from`, and winner k comes from matchup k.
RoundFrom(matchups, winners, from) ==
    /\ Len(winners) = Len(matchups)
    /\ \A k \in 1..Len(matchups) :
           /\ {matchups[k][1], matchups[k][2]} \subseteq from
           /\ winners[k] \in {matchups[k][1], matchups[k][2]}

\* The rounds of conference c in the latest simulated playoff form a chain
\* from the 8-team field to the conference champion.
ChainSimulated(c) ==
    LET r == playoff_result.conf[c]
    IN  /\ Len(r.playoff_teams) = 8
        /\ Len(r.first_round_matchups) = 4
        /\ RoundFrom(MatchupIds(r.first_round_matchups), r.first_round,
                     Range(Ids(r.playoff_teams)))
        /\ Len(r.semifinal_matchups) = 2
        /\ RoundFrom(MatchupIds(r.semifinal_matchups), r.conference_semifinals,
                     Range(r.first_round))
        /\ Len(r.final_matchups) = 1
        /\ RoundFrom(MatchupIds(r.final_matchups), r.conference_finals,
                     Range(r.conference_semifinals))
        /\ r.champion.team_id = r.conference_finals[1]
        /\ playoff_result.conference_champions[c] = r.champion
        /\ r.champion \in Range(playoff_result.finals_teams)

SeriesWinners(sp) == [k \in 1..Len(sp) |-> sp[k].predicted_winner]

\* The same chain in the bracket of generate_playoff_bracket.
ChainBracket(c) ==
    /\ Len(bracket.playoff_teams[c]) = 8
    /\ Len(bracket.first_round[c]) = 4
    /\ RoundFrom(SeriesTeams(bracket.first_round[c]), SeriesWinners(bracket.first_round[c]),
                 Range(bracket.playoff_teams[c]))
    /\ Len(bracket.conference_semifinals[c]) = 2
    /\ RoundFrom(SeriesTeams(bracket.conference_semifinals[c]),
                 SeriesWinners(bracket.conference_semifinals[c]),
                 Range(SeriesWinners(bracket.first_round[c])))
    /\ Len(bracket.conference_finals[c]) = 1
    /\ RoundFrom(SeriesTeams(bracket.conference_finals[c]),
                 SeriesWinners(bracket.conference_finals[c]),
                 Range(SeriesWinners(bracket.conference_semifinals[c])))

\* The finals are played by the two conference champions and won by one of them.
FinalsFromChampions ==
    /\ SimulatedOK =>
           /\ playoff_result.finals_teams
                  = <<playoff_result.conf["Eastern"].champion,
                      playoff_result.conf["Western"].champion>>
           /\ playoff_result.champion \in Range(playoff_result.finals_teams)
    /\ (pc = "bracket_done" /\ bracket.nba_finals # <<>>) =>
           /\ bracket.nba_finals[1].team1
                  = bracket.conference_finals["Eastern"][1].predicted_winner
           /\ bracket.nba_finals[1].team2
                  = bracket.conference_finals["Western"][1].predicted_winner
           /\ bracket.nba_finals[1].predicted_winner
                  \in {bracket.nba_finals[1].team1, bracket.nba_finals[1].team2}

C18_StandingsRanked ==
    pc = "standings_done" =>
        \A c \in ConferenceSet :
            LET s == standings[c]
                index(id) == CHOOSE i \in 1..ConferenceSize : ConferenceTeams(c)[i] = id
            IN  /\ Len(s) = ConferenceSize
                /\ {s[r].team_id : r \in 1..Len(s)} = Range(ConferenceTeams(c))
                /\ \A r \in 1..Len(s) : s[r].rank = r
                /\ \A r \in 1..(Len(s) - 1) :
                       /\ s[r].projected_wins >= s[r + 1].projected_wins
                       /\ s[r].projected_wins = s[r + 1].projected_wins
                              => index(s[r].team_id) < index(s[r + 1].team_id)

\* Standings led by a team that is not the first of the team list, with two
\* teams tied on projected wins.
C18_Witness ==
    /\ pc = "standings_done"
    /\ simulations >= 1
    /\ standings["Eastern"][1].team_id # ConferenceTeams("Eastern")[1]
    /\ \E r \in 1..(ConferenceSize - 1) :
           standings["Eastern"][r].projected_wins
               = standings["Eastern"][r + 1].projected_wins

\* The wrapper activations in progress.
Frames == {stack[i] : i \in 1..Len(stack)}

\* The result of f is one its wrapped function computes from the arguments of
\* f at some position of the stream.
Fresh(f) ==
    \E p \in 0..(TapeLen - 1) :
        f.result = DataOf(f.operation, wrapped_function(f, team_ratings, tape, p))

\* C12: a call with simulations <= 0 is rejected before any simulation step:
\* the wrapped function returns no standings or odds as a normal result, and
\* nothing is written to the cache for it.
C12_InvalidSimulationsRejected ==
    \A f \in Frames :
        (f.operation \in {"conference_standings", "championship_odds"}
         /\ BoundSimulations(f) <= 0)
            => (f.pc \notin {"store"} /\ ~f.stored /\ f.executed = 0)

\* C15: a cache hit returns only a result computed by the same operation with
\* the same parameter values as the current call, whether the parameters are
\* passed positionally or by keyword.
C15_HitMatchesParameters ==
    \A f \in Frames :
        (f.hit /\ f.pc = "return"
         /\ (f.operation = "conference_standings"
             \/ (f.operation = "playoff_bracket" /\ StandingsGiven(f))))
            => Fresh(f)

\* C16: the cache is looked up before the wrapped function; on a hit the
\* function is not executed and the stored data is returned; on a miss the
\* function is executed exactly once, and the store happens only after it
\* has returned.
C16_LookupBeforeExecute ==
    \A f \in Frames :
        /\ f.pc = "retrieve" => (f.lookups = 0 /\ f.executed = 0 /\ ~f.stored)
        /\ f.pc # "retrieve" => f.lookups = 1
        /\ f.pc = "execute" => (f.executed = 0 /\ ~f.stored /\ ~f.hit)
        /\ f.pc = "store" => (f.executed = 1 /\ ~f.stored /\ ~f.hit)
        /\ f.hit =>
              /\ f.executed = 0
              /\ ~f.stored
              /\ generate_prediction_key(f.operation, f.kwargs, now) \in DOMAIN s3
              /\ f.result
                   = s3[generate_prediction_key(f.operation, f.kwargs, now)].data
        /\ (f.pc = "return" /\ ~f.hit /\ ~f.exception) => f.executed = 1
        /\ f.stored => f.executed = 1

\* A call of calculate_comprehensive_odds answered from the cache.
C16_Witness ==
    \E f \in Frames :
        f.operation = "championship_odds" /\ f.hit /\ f.pc = "return"

\* C17: when get_object or put_object raises, the cached operation still
\* returns the freshly computed result of the wrapped function, and no
\* exception of the storage layer reaches the caller.
C17_StorageFailureDegrades ==
    \A f \in Frames :
        /\ ~f.exception
        /\ ((f.get_failed \/ f.put_failed) /\ f.pc = "return")
              => (f.executed = 1 /\ ~f.hit /\ Fresh(f))

\* A call whose lookup and whose store both failed is about to return.
C17_Witness ==
    \E f \in Frames :
        f.get_failed /\ f.put_failed /\ f.pc = "return" /\ f.executed = 1

\* The result of merging a and then b into the tallies tr.
Merged(tr, a, b) == update_team_results(update_team_results(tr, a), b)

\* The playoff simulated from position p of the stream.
PlayoffAt(p) == simulate_single_playoff(standings, tape, p)

\* The teams a simulated playoff names.
NamedIn(pr) ==
    {pr.finals_teams[i].team_id :
        i \in {j \in 1..Len(pr.finals_teams) : pr.finals_teams[j] # None}}
    \cup UNION {Range(pr.round_results[name][c]) :
                   name \in DOMAIN pr.round_results, c \in ConferenceSet}

\* C21: merging two simulation results into the tallies gives the same
\* counters in either order, and a merge changes only the counters of teams
\* the merged result names.
C21_MergeOrderIrrelevant ==
    (pc = "simulating" /\ SimulatedOK) =>
        /\ \A p \in 0..(TapeLen - 1) :
               ~PlayoffAt(p).raised =>
                   Merged(team_results, playoff_result, PlayoffAt(p))
                       = Merged(team_results, PlayoffAt(p), playoff_result)
        /\ \A id \in DOMAIN team_results \ NamedIn(playoff_result) :
               update_team_results(team_results, playoff_result)[id] = team_results[id]

\* Tallies of two simulations, and a further simulation that crowns another
\* champion than the latest one.
C21_Witness ==
    /\ pc = "simulating"
    /\ SimulatedOK
    /\ sim >= 2
    /\ playoff_result.champion # None
    /\ \E p \in 0..(TapeLen - 1) :
           /\ ~PlayoffAt(p).raised
           /\ PlayoffAt(p).champion # None
           /\ PlayoffAt(p).champion.team_id # playoff_result.champion.team_id

\* The favourite's single-game win probability, in thousandths.
FavouriteProb(outcome) ==
    IF outcome.team1_game_win_prob >= 500
    THEN outcome.team1_game_win_prob
    ELSE 1000 - outcome.team1_game_win_prob

\* The series lengths the mapping allows for a favourite of probability f.
GamesFor(f) ==
    IF f >= 700 THEN {4, 5} ELSE IF f >= 600 THEN {5, 6} ELSE {6, 7}

\* C22: predicted_games is drawn from the set fixed by the favourite's
\* single-game win probability f = max(p, 1 - p): {4,5} for f >= 0.7, {5,6}
\* for 0.6 <= f < 0.7, {6,7} otherwise; so swapping the teams keeps the set.
\* Stated for the best-of-seven series.
C22_PredictedGamesByFavourite ==
    (pc = "series_done" /\ series.series_length = DefaultSeriesLength) =>
        series.predicted_games \in GamesFor(FavouriteProb(series))

\* Games one team plays in one simulated season, in tenths.
GamesPlayedTenths(c) == 10 * SeasonDraws(ConferenceTeams(c))

\* C23: projected_losses is the number of games the team plays in a
\* simulated season minus projected_wins, win_percentage is projected_wins
\* over that number, and a team that wins every simulated game has
\* projected_losses 0, win_percentage 1.0 and playoff_probability 0.95.
C23_LossesFromGamesPlayed ==
    (pc = "standings_done" /\ simulations >= 1) =>
        \A c \in ConferenceSet : \A i \in 1..Len(standings[c]) :
            /\ standings[c][i].projected_wins + standings[c][i].projected_losses
                   = GamesPlayedTenths(c)
            /\ standings[c][i].projected_wins = GamesPlayedTenths(c) =>
                   /\ standings[c][i].projected_losses = 0
                   /\ standings[c][i].win_percentage = 1000
                   /\ standings[c][i].playoff_probability = 950

\* The finals of the latest simulated playoff were played by two teams.
FinalsPlayed ==
    /\ SimulatedOK
    /\ Len(playoff_result.finals_teams) = 2
    /\ playoff_result.finals_teams[1] # None
    /\ playoff_result.finals_teams[2] # None

\* C24: the probability used for a head-to-head draw is symmetric in the
\* argument order: P(A advances | A first) + P(B advances | B first) = 1, and
\* two teams of equal rating each advance with probability 0.5.  Stated for
\* the finals of a simulated playoff.
C24_HeadToHeadSymmetric ==
    FinalsPlayed =>
        /\ team1_series_prob(playoff_result.finals_teams[1],
                             playoff_result.finals_teams[2], team_ratings)
             + team1_series_prob(playoff_result.finals_teams[2],
                                 playoff_result.finals_teams[1], team_ratings)
             = 10000
        /\ Rating(team_ratings, playoff_result.finals_teams[1].team_id)
             = Rating(team_ratings, playoff_result.finals_teams[2].team_id)
               => team1_series_prob(playoff_result.finals_teams[1],
                                    playoff_result.finals_teams[2], team_ratings) = 5000

\* The teams of the first-round fields of the latest simulated playoff.
FieldIds ==
    UNION {{playoff_result.conf[c].playoff_teams[i].team_id :
               i \in 1..Len(playoff_result.conf[c].playoff_teams)} : c \in ConferenceSet}

\* The teams ranked 11th or lower in the standings.
BelowPlayIn ==
    UNION {{standings[c][i].team_id : i \in 11..Len(standings[c])} : c \in ConferenceSet}

\* C27: the reported make_playoffs is the fraction of simulations in which
\* the team was in its conference's first-round field: after one simulation
\* it is 1 for the teams of the field and 0 for the others, and a team ranked
\* 11th or lower is reported with 0 after any number of simulations.
C27_PlayoffProbabilityIsFieldFraction ==
    (pc = "odds_done" /\ simulations >= 1 /\ SimulatedOK) =>
        \A id \in DOMAIN odds.round_probabilities :
            /\ simulations = 1 =>
                   odds.round_probabilities[id].make_playoffs
                       = (IF id \in FieldIds THEN 10000 ELSE 0)
            /\ id \in BelowPlayIn => odds.round_probabilities[id].make_playoffs = 0

\* The sum of the counter `key` over the teams ids[i..].
RECURSIVE SumCounter(_, _, _, _)
SumCounter(tr, ids, i, key) ==
    IF i > Len(ids) THEN 0 ELSE tr[ids[i]][key] + SumCounter(tr, ids, i + 1, key)

\* The sum of the reported championship probabilities from entry i on.
RECURSIVE SumReported(_, _)
SumReported(list, i) ==
    IF i > Len(list) THEN 0
    ELSE list[i].championship_probability + SumReported(list, i + 1)

\* The counter sums of C26 after `sim` simulations.
CounterSums ==
    /\ SumCounter(team_results, TeamOrder(standings), 1, "championships") = sim
    /\ SumCounter(team_results, TeamOrder(standings), 1, "finals_appearances") = 2 * sim
    /\ \A c \in ConferenceSet :
           SumCounter(team_results, Ids(standings[c]), 1, "finals_appearances") = sim

\* C26 as stated: after N >= 1 simulations over standings with at least 8
\* teams per conference the championships counters sum to N, the
\* finals_appearances counters to 2N and to N within each conference, and the
\* reported championship probabilities sum to 1.
C26_TalliesSumReportedSumOne ==
    (BothAtLeast(8) /\ sim >= 1) =>
        /\ pc \in {"simulating", "odds_done"} => CounterSums
        /\ pc = "odds_done" => SumReported(odds.championship_odds, 1) = 10000

\* C26, amended: the counter sums hold, so the exact probabilities
\* championships / N sum to 1; the reported ones, each rounded to four
\* decimals, sum to 1 within half a unit of the fourth decimal per team.
C26_TalliesSumReportedSumNearOne ==
    (BothAtLeast(8) /\ sim >= 1) =>
        /\ pc \in {"simulating", "odds_done"} => CounterSums
        /\ pc = "odds_done" =>
               /\ 2 * (SumReported(odds.championship_odds, 1) - 10000)
                      <= Len(odds.championship_odds)
               /\ 2 * (10000 - SumReported(odds.championship_odds, 1))
                      <= Len(odds.championship_odds)

\* Odds of three simulations that crowned three different champions.
C26_Witness ==
    /\ pc = "odds_done"
    /\ BothAtLeast(8)
    /\ sim = 3
    /\ Cardinality({id \in DOMAIN team_results : team_results[id].championships = 1}) = 3

\* The key of the wrapper activation f at the current time.
KeyOf(f) == generate_prediction_key(f.operation, f.kwargs, now)

DefaultData(operation) ==
    CASE operation = "conference_standings" -> get_default_standings
      [] operation = "playoff_bracket" ->
             DataOf("playoff_bracket", get_default_bracket([start |-> 0, pos |-> 0]))
      [] operation = "championship_odds" ->
             json_round_trip("championship_odds", get_default_odds)

\* C28: a default structure returned because the computation raised is
\* never written to the cache.
C28_DefaultsNeverCached ==
    \A k \in DOMAIN s3 : s3[k].data # DefaultData(s3[k].operation)

\* C29: a stored prediction can be retrieved with the same operation and
\* parameters at every moment before its expires_at, also when the calendar
\* date has changed since the store.
C29_RetrievableUntilExpiry ==
    \A k \in DOMAIN s3 :
        now < s3[k].expires_at =>
            retrieve_prediction(s3, s3[k].operation, s3[k].parameters, now,
                                FALSE, FALSE).found

\* C30: at most one scheduler thread is executing _run_scheduler at any
\* time, whatever the order of the start and stop calls.
C30_SingleSchedulerThread == Cardinality(Executing) <= 1

TypeOK == pos \in 0..(TapeLen - 1)
====
